---- MODULE Spec2Model ----
(***************************************************************************)
(* The ReAct loop of src/1-llm-api/combinatorics_agent.py:                 *)
(* CombinatoricsAgent.run, the two combinatorics tools and the registry    *)
(* available_functions, with the model backend as the environment.         *)
(***************************************************************************)
EXTENDS Integers, Sequences, FiniteSets, TLC

\* Largest iteration budget (self.max_iterations) the caller configures.
MaxIter == 2
\* Largest number of tool requests the backend puts in one assistant turn.
MaxToolCalls == 2
\* The budget the constructor sets.
DefaultMaxIterations == 10
\* Largest integer a tool function is called with directly.
MaxArg == 10

\* Two agent objects, each running at most one run(messages) call.
Runs == {1, 2}

\* Python's None / a str value, for content fields and return values.
None == <<>>
Some(s) == <<s>>

Sentinel == "Error: Maximum iterations reached without getting a final answer."
InvalidInput == "Invalid input: n and m must be non-negative integers with m <= n"

(***************************************************************************)
(* The tools                                                               *)
(***************************************************************************)
\* math.comb(n, k) for 0 <= k <= n, by the multiplicative formula.
RECURSIVE math_comb(_, _)
math_comb(n, k) ==
    IF k = 0 THEN 1 ELSE (math_comb(n, k - 1) * (n - k + 1)) \div k

\* math.perm(n, k) for 0 <= k <= n.
RECURSIVE math_perm(_, _)
math_perm(n, k) ==
    IF k = 0 THEN 1 ELSE math_perm(n, k - 1) * (n - k + 1)

\* Mutant: math.perm is called where math.comb is meant.
calculate_combinations_as_perm(n, m) ==
    IF m > n \/ m < 0 \/ n < 0
    THEN [error |-> InvalidInput]
    ELSE IF m = 0 \/ m = n
         THEN [n |-> n, m |-> m, combinations |-> 1]
         ELSE [n |-> n, m |-> m, combinations |-> math_perm(n, m)]

\* Mutant: the m > n test is missing; math.comb(n, m) is 0 for m > n.
calculate_combinations_no_upper(n, m) ==
    IF m < 0 \/ n < 0
    THEN [error |-> InvalidInput]
    ELSE IF m = 0 \/ m = n
         THEN [n |-> n, m |-> m, combinations |-> 1]
         ELSE [n |-> n, m |-> m, combinations |-> math_comb(n, m)]

calculate_combinations(n, m) ==
    IF m > n \/ m < 0 \/ n < 0
    THEN [error |-> InvalidInput]
    ELSE IF m = 0 \/ m = n
         THEN [n |-> n, m |-> m, combinations |-> 1]
         ELSE [n |-> n, m |-> m, combinations |-> math_comb(n, m)]

\* Mutant: the precondition check is missing; math.perm(n, m) is 0 for m > n.
calculate_permutations_unchecked(n, m) ==
    IF m = 0
    THEN [n |-> n, m |-> m, permutations |-> 1]
    ELSE [n |-> n, m |-> m, permutations |-> math_perm(n, m)]

calculate_permutations(n, m) ==
    IF m > n \/ m < 0 \/ n < 0
    THEN [error |-> InvalidInput]
    ELSE IF m = 0
         THEN [n |-> n, m |-> m, permutations |-> 1]
         ELSE [n |-> n, m |-> m, permutations |-> math_perm(n, m)]

\* The parameter schema both tools declare.
Parameters(n_description, m_description) ==
    [type |-> "object",
     properties |-> [n |-> [type |-> "integer", description |-> n_description],
                     m |-> [type |-> "integer", description |-> m_description]],
     required |-> <<"n", "m">>]

\* The tool catalog as built at import time.
Catalog ==
    << [type |-> "function",
        function |->
            [name |-> "calculate_combinations",
             description |-> "Calculate the number of combinations (n choose m). Use this when you need to find how many ways to choose m items from n items where order doesn't matter.",
             parameters |-> Parameters("Total number of items (n)", "Number of items to choose (m)")]],
       [type |-> "function",
        function |->
            [name |-> "calculate_permutations",
             description |-> "Calculate the number of permutations P(n,m). Use this when you need to find how many ways to arrange m items from n items where order matters.",
             parameters |-> Parameters("Total number of items (n)", "Number of items to arrange (m)")]] >>

\* The model identifier the constructor sets.
Model == "gpt-4o"

\* The registry as built at import time: tool name -> implementation.
Registry ==
    [name \in {"calculate_combinations", "calculate_permutations"} |-> name]

\* function_to_call(**function_args) for a decoded {"n": .., "m": ..} object.
Invoke(impl, args) ==
    IF impl = "calculate_combinations"
    THEN calculate_combinations(args.n, args.m)
    ELSE calculate_permutations(args.n, args.m)

(***************************************************************************)
(* JSON at the tool boundary                                               *)
(***************************************************************************)
\* Raw argument payloads the backend sends (tool_call.function.arguments).
ArgsValid == "{\"n\": 2, \"m\": 1}"
ArgsDomainError == "{\"n\": 1, \"m\": 2}"
ArgsNotObject == "[2, 1]"
ArgsTruncated == "{\"n\": 2, \"m\":"

\* json.loads on those payloads: the decoded value, or JSONDecodeError.
json_loads(s) ==
    CASE s = ArgsValid       -> [raised |-> FALSE, type |-> "dict", n |-> 2, m |-> 1]
      [] s = ArgsDomainError -> [raised |-> FALSE, type |-> "dict", n |-> 1, m |-> 2]
      [] s = ArgsNotObject   -> [raised |-> FALSE, type |-> "list", n |-> 0, m |-> 0]
      [] OTHER               -> [raised |-> TRUE, type |-> "JSONDecodeError", n |-> 0, m |-> 0]

\* json.dumps of a tool's payload.
json_dumps(payload) ==
    IF "error" \in DOMAIN payload
    THEN "{\"error\": \"" \o payload.error \o "\"}"
    ELSE "{\"n\": " \o ToString(payload.n) \o ", \"m\": " \o ToString(payload.m)
         \o (IF "combinations" \in DOMAIN payload
             THEN ", \"combinations\": " \o ToString(payload.combinations)
             ELSE ", \"permutations\": " \o ToString(payload.permutations))
         \o "}"

(***************************************************************************)
(* The environment: the caller and the model backend                       *)
(***************************************************************************)
SystemTurn ==
    [role |-> "system",
     content |-> Some("You are a helpful AI assistant that can perform combinatorics calculations.")]
UserTurn(q) == [role |-> "user", content |-> Some(q)]

\* Transcripts the caller hands to run.
Transcript1 == <<SystemTurn, UserTurn("How many ways can I choose 3 items from 10 items?")>>
Transcript4 == <<SystemTurn, UserTurn("What happens if I try to choose 5 items from 3 items?")>>
InitialTranscripts == { Transcript1, Transcript4 }

\* Iteration budgets the caller configures, negative and zero included.
IterationBudgets == (-1)..MaxIter

\* (name, arguments) of the tool requests the backend may issue.
ToolCall(name, arguments) == [name |-> name, arguments |-> arguments]
AllRequests ==
    { ToolCall("calculate_combinations", ArgsValid),
      ToolCall("calculate_permutations", ArgsDomainError),
      ToolCall("get_weather", ArgsValid),
      ToolCall("calculate_combinations", ArgsTruncated),
      ToolCall("get_weather", ArgsTruncated),
      ToolCall("calculate_permutations", ArgsNotObject) }
SomeRequests ==
    { ToolCall("calculate_combinations", ArgsValid),
      ToolCall("calculate_permutations", ArgsDomainError),
      ToolCall("get_weather", ArgsValid),
      ToolCall("calculate_combinations", ArgsTruncated) }
FewRequests ==
    { ToolCall("calculate_combinations", ArgsValid),
      ToolCall("get_weather", ArgsValid) }

\* Texts of a response without tool requests: a str, the empty str, None.
AllTexts == { Some("120"), Some(""), None, Some(Sentinel) }
FewTexts == { Some("120") }

\* Sequences over S of length lo..hi.
SeqsOf(S, lo, hi) == UNION { [1..k -> S] : k \in lo..hi }

\* The correlation id the backend gives the i-th request of its k-th response.
ToolCallId(k, i) == "call_" \o ToString(k) \o "_" \o ToString(i)

\* response.choices[0].message of the k-th call, for a batch of requests.
ResponseMessage(k, content, batch) ==
    [content |-> content,
     tool_calls |-> [i \in 1..Len(batch) |->
                        [id |-> ToolCallId(k, i), function |-> batch[i]]]]

NoResponse == [content |-> None, tool_calls |-> <<>>]

VARIABLES
    env,                 \* what the caller starts and what the backend may answer
    available_functions, \* the tool registry (module global)
    max_iterations,      \* self.max_iterations of each agent
    pc,                  \* where each run is
    messages,            \* the transcript each run was given, as mutated
    iteration,           \* the local counter of each run
    response_message,    \* the response being handled
    tool_index,          \* position of the for loop over tool_calls
    result,              \* the value run returned
    error,               \* the exception run raised
    calls,               \* the transcripts sent to the backend, in order
    responses,           \* the responses the backend gave, in order
    initial,             \* the transcript run was called with
    tools,               \* the tool catalog advertised to the backend (module global)
    call_options,        \* the keyword arguments of each model call, besides messages
    invocation           \* the last direct call of a tool function: <<>> or <<name, n, m, payload>>

vars == << env, available_functions, max_iterations, pc, messages, iteration,
           response_message, tool_index, result, error, calls, responses, initial,
           tools, call_options, invocation >>

Terminal == {"Done", "Exhausted", "Raised"}

\* The responses the backend may give to the k-th call of a run.
BackendResponses(k) ==
    { ResponseMessage(k, c, <<>>) : c \in env.texts }
    \cup { ResponseMessage(k, None, b) : b \in SeqsOf(env.requests, 1, MaxToolCalls) }

(***************************************************************************)
(* run                                                                     *)
(***************************************************************************)
\* The assistant message appended when the response carries tool calls.
AssistantToolTurn(msg) ==
    [role |-> "assistant",
     content |-> msg.content,
     tool_calls |-> [i \in 1..Len(msg.tool_calls) |->
                        [id |-> msg.tool_calls[i].id,
                         type |-> "function",
                         function |-> [name |-> msg.tool_calls[i].function.name,
                                       arguments |-> msg.tool_calls[i].function.arguments]]]]

\* The final assistant message.
AssistantFinalTurn(final_content) ==
    [role |-> "assistant", content |-> final_content]

\* Mutant: the tool message carries the tool's name as its correlation id.
ToolTurnNameAsId(tool_id, function_name, function_response) ==
    [role |-> "tool",
     tool_call_id |-> function_name,
     name |-> function_name,
     content |-> Some(json_dumps(function_response))]

\* The tool message appended for one executed tool call.
ToolTurn(tool_id, function_name, function_response) ==
    [role |-> "tool",
     tool_call_id |-> tool_id,
     name |-> function_name,
     content |-> Some(json_dumps(function_response))]

\* Mutant: the system turn is left out of what is sent.
SentTranscriptTail(r) == SubSeq(messages[r], 2, Len(messages[r]))

\* The transcript handed to client.chat.completions.create.
SentTranscript(r) == messages[r]

\* Mutant: the catalog is advertised on the first call only.
CallOptionsToolsOnce(r) ==
    [model |-> Model,
     tools |-> IF iteration[r] = 0 THEN tools ELSE <<>>,
     tool_choice |-> "auto",
     parallel_tool_calls |-> FALSE]

\* The keyword arguments of client.chat.completions.create, besides messages.
CallOptions(r) ==
    [model |-> Model,
     tools |-> tools,
     tool_choice |-> "auto",
     parallel_tool_calls |-> FALSE]

\* Mutant: the loop test is off by one.
WithinBudgetInclusive(r) == iteration[r] <= max_iterations[r]

\* Mutant: the body runs once before the budget is looked at (a do-while).
WithinBudgetAtLeastOnce(r) ==
    iteration[r] < (IF max_iterations[r] < 1 THEN 1 ELSE max_iterations[r])

\* The while condition.
WithinBudget(r) == iteration[r] < max_iterations[r]

\* Mutant: the counter is shared by all agents (a class attribute).
NextIterationShared(r) == [s \in Runs |-> iteration[s] + 1]

\* iteration += 1, on the run's own local.
NextIteration(r) == [iteration EXCEPT ![r] = @ + 1]

\* Mutant: an absent text is turned into the empty text.
FinalContentOrEmpty(msg) == IF msg.content = None THEN Some("") ELSE msg.content

\* final_content = response_message.content
FinalContent(msg) == msg.content

\* agent.run(messages): the caller enters run with its transcript.
Run(r) ==
    /\ pc[r] = "idle"
    /\ r \in env.callers
    /\ \E m \in env.transcripts[r] :
          /\ messages' = [messages EXCEPT ![r] = m]
          /\ initial' = [initial EXCEPT ![r] = m]
    /\ iteration' = [iteration EXCEPT ![r] = 0]
    /\ pc' = [pc EXCEPT ![r] = "while"]
    /\ UNCHANGED << invocation, tools, call_options, env, available_functions, max_iterations, response_message,
                    tool_index, result, error, calls, responses >>

\* One pass of the loop head: the test, the increment and the model call.
CallModel(r) ==
    /\ pc[r] = "while"
    /\ WithinBudget(r)
    /\ iteration' = NextIteration(r)
    /\ calls' = [calls EXCEPT ![r] = Append(@, SentTranscript(r))]
    /\ \E resp \in BackendResponses(iteration[r] + 1) :
          /\ response_message' = [response_message EXCEPT ![r] = resp]
          /\ responses' = [responses EXCEPT ![r] = Append(@, resp)]
    /\ call_options' = [call_options EXCEPT ![r] = Append(@, CallOptions(r))]
    /\ pc' = [pc EXCEPT ![r] = "respond"]
    /\ UNCHANGED << invocation, tools, env, available_functions, max_iterations, messages,
                    tool_index, result, error, initial >>

\* Mutant: with the budget spent the loop spins instead of returning.
ExhaustSpins(r) ==
    /\ pc[r] = "while"
    /\ ~WithinBudget(r)
    /\ UNCHANGED vars

\* Mutant: the sentinel is appended as an assistant turn before it is returned.
ExhaustAppends(r) ==
    /\ pc[r] = "while"
    /\ ~WithinBudget(r)
    /\ messages' = [messages EXCEPT ![r] =
                        Append(@, [role |-> "assistant", content |-> Some(Sentinel)])]
    /\ result' = [result EXCEPT ![r] = Some(Sentinel)]
    /\ pc' = [pc EXCEPT ![r] = "Exhausted"]
    /\ UNCHANGED << invocation, tools, call_options, env, available_functions, max_iterations,
                    iteration, response_message, tool_index, error, calls, responses, initial >>

\* The loop test fails: return the sentinel.
Exhaust(r) ==
    /\ pc[r] = "while"
    /\ ~WithinBudget(r)
    /\ result' = [result EXCEPT ![r] = Some(Sentinel)]
    /\ pc' = [pc EXCEPT ![r] = "Exhausted"]
    /\ UNCHANGED << invocation, tools, call_options, env, available_functions, max_iterations, messages, iteration,
                    response_message, tool_index, error, calls, responses, initial >>

\* The response carries tool calls: append the assistant turn, enter the for loop.
AppendAssistant(r) ==
    /\ pc[r] = "respond"
    /\ response_message[r].tool_calls # <<>>
    /\ messages' = [messages EXCEPT ![r] = Append(@, AssistantToolTurn(response_message[r]))]
    /\ tool_index' = [tool_index EXCEPT ![r] = 1]
    /\ pc' = [pc EXCEPT ![r] = "dispatch"]
    /\ UNCHANGED << invocation, tools, call_options, env, available_functions, max_iterations, iteration,
                    response_message, result, error, calls, responses, initial >>

\* Mutant: the final answer is returned without being appended.
FinalAnswerNoAppend(r) ==
    /\ pc[r] = "respond"
    /\ response_message[r].tool_calls = <<>>
    /\ result' = [result EXCEPT ![r] = FinalContent(response_message[r])]
    /\ pc' = [pc EXCEPT ![r] = "Done"]
    /\ UNCHANGED << invocation, tools, call_options, env, available_functions, max_iterations,
                    messages, iteration, response_message, tool_index, error, calls,
                    responses, initial >>

\* Mutant: a response with neither tool calls nor text is rejected.
FinalAnswerRejectsEmpty(r) ==
    /\ pc[r] = "respond"
    /\ response_message[r].tool_calls = <<>>
    /\ IF response_message[r].content \in {None, Some("")}
       THEN /\ error' = [error EXCEPT ![r] = "ValueError"]
            /\ pc' = [pc EXCEPT ![r] = "Raised"]
            /\ UNCHANGED << messages, result >>
       ELSE /\ messages' = [messages EXCEPT ![r] =
                                Append(@, AssistantFinalTurn(response_message[r]))]
            /\ result' = [result EXCEPT ![r] = FinalContent(response_message[r])]
            /\ pc' = [pc EXCEPT ![r] = "Done"]
            /\ UNCHANGED error
    /\ UNCHANGED << invocation, tools, call_options, env, available_functions, max_iterations,
                    iteration, response_message, tool_index, calls, responses, initial >>

\* No tool calls: append the final assistant turn and return its content.
FinalAnswer(r) ==
    /\ pc[r] = "respond"
    /\ response_message[r].tool_calls = <<>>
    /\ messages' = [messages EXCEPT ![r] =
                       Append(@, AssistantFinalTurn(FinalContent(response_message[r])))]
    /\ result' = [result EXCEPT ![r] = FinalContent(response_message[r])]
    /\ pc' = [pc EXCEPT ![r] = "Done"]
    /\ UNCHANGED << invocation, tools, call_options, env, available_functions, max_iterations, iteration,
                    response_message, tool_index, error, calls, responses, initial >>

\* Mutant: the registry lookup is done before the arguments are decoded.
DispatchErrorLookupFirst(tool_call) ==
    LET function_args == json_loads(tool_call.function.arguments)
    IN  IF tool_call.function.name \notin DOMAIN available_functions THEN "KeyError"
        ELSE IF function_args.raised THEN "JSONDecodeError"
        ELSE IF function_args.type # "dict" THEN "TypeError"
        ELSE ""

\* The exception one pass of the for body raises, or "" when it completes.
DispatchError(tool_call) ==
    LET function_args == json_loads(tool_call.function.arguments)
    IN  IF function_args.raised THEN "JSONDecodeError"
        ELSE IF tool_call.function.name \notin DOMAIN available_functions THEN "KeyError"
        ELSE IF function_args.type # "dict" THEN "TypeError"
        ELSE ""

\* The tool message one pass of the for body appends when nothing is raised.
DispatchTurn(tool_call) ==
    ToolTurn(tool_call.id,
             tool_call.function.name,
             Invoke(available_functions[tool_call.function.name],
                    json_loads(tool_call.function.arguments)))

\* Mutant: a request whose arguments do not decode is skipped (try/except: continue).
DispatchToolCallSkipMalformed(r) ==
    /\ pc[r] = "dispatch"
    /\ tool_index[r] <= Len(response_message[r].tool_calls)
    /\ LET tool_call == response_message[r].tool_calls[tool_index[r]]
       IN  IF DispatchError(tool_call) = "JSONDecodeError"
           THEN /\ tool_index' = [tool_index EXCEPT ![r] = @ + 1]
                /\ UNCHANGED << messages, error, pc >>
           ELSE IF DispatchError(tool_call) # ""
           THEN /\ error' = [error EXCEPT ![r] = DispatchError(tool_call)]
                /\ pc' = [pc EXCEPT ![r] = "Raised"]
                /\ UNCHANGED << messages, tool_index >>
           ELSE /\ messages' = [messages EXCEPT ![r] = Append(@, DispatchTurn(tool_call))]
                /\ tool_index' = [tool_index EXCEPT ![r] = @ + 1]
                /\ UNCHANGED << error, pc >>
    /\ UNCHANGED << invocation, tools, call_options, env, available_functions, max_iterations, iteration,
                    response_message, result, calls, responses, initial >>

\* Mutant: the batch is walked from its last request to its first.
DispatchToolCallReversed(r) ==
    /\ pc[r] = "dispatch"
    /\ tool_index[r] <= Len(response_message[r].tool_calls)
    /\ LET tool_call == response_message[r].tool_calls[
                            Len(response_message[r].tool_calls) + 1 - tool_index[r]]
       IN  IF DispatchError(tool_call) # ""
           THEN /\ error' = [error EXCEPT ![r] = DispatchError(tool_call)]
                /\ pc' = [pc EXCEPT ![r] = "Raised"]
                /\ UNCHANGED << messages, tool_index >>
           ELSE /\ messages' = [messages EXCEPT ![r] = Append(@, DispatchTurn(tool_call))]
                /\ tool_index' = [tool_index EXCEPT ![r] = @ + 1]
                /\ UNCHANGED << error, pc >>
    /\ UNCHANGED << invocation, tools, call_options, env, available_functions, max_iterations,
                    iteration, response_message, result, calls, responses, initial >>

\* Mutant: a failing request undoes the turns appended since the model call.
DispatchToolCallRollback(r) ==
    /\ pc[r] = "dispatch"
    /\ tool_index[r] <= Len(response_message[r].tool_calls)
    /\ LET tool_call == response_message[r].tool_calls[tool_index[r]]
       IN  IF DispatchError(tool_call) # ""
           THEN /\ error' = [error EXCEPT ![r] = DispatchError(tool_call)]
                /\ pc' = [pc EXCEPT ![r] = "Raised"]
                /\ messages' = [messages EXCEPT ![r] = calls[r][Len(calls[r])]]
                /\ UNCHANGED tool_index
           ELSE /\ messages' = [messages EXCEPT ![r] = Append(@, DispatchTurn(tool_call))]
                /\ tool_index' = [tool_index EXCEPT ![r] = @ + 1]
                /\ UNCHANGED << error, pc >>
    /\ UNCHANGED << invocation, tools, call_options, env, available_functions, max_iterations,
                    iteration, response_message, result, calls, responses, initial >>

\* One pass of the for body over response_message.tool_calls.
DispatchToolCall(r) ==
    /\ pc[r] = "dispatch"
    /\ tool_index[r] <= Len(response_message[r].tool_calls)
    /\ LET tool_call == response_message[r].tool_calls[tool_index[r]]
       IN  IF DispatchError(tool_call) # ""
           THEN /\ error' = [error EXCEPT ![r] = DispatchError(tool_call)]
                /\ pc' = [pc EXCEPT ![r] = "Raised"]
                /\ UNCHANGED << messages, tool_index >>
           ELSE /\ messages' = [messages EXCEPT ![r] = Append(@, DispatchTurn(tool_call))]
                /\ tool_index' = [tool_index EXCEPT ![r] = @ + 1]
                /\ UNCHANGED << error, pc >>
    /\ UNCHANGED << invocation, tools, call_options, env, available_functions, max_iterations, iteration,
                    response_message, result, calls, responses, initial >>

\* The for loop is over: continue with the next pass of the while loop.
Continue(r) ==
    /\ pc[r] = "dispatch"
    /\ tool_index[r] > Len(response_message[r].tool_calls)
    /\ pc' = [pc EXCEPT ![r] = "while"]
    /\ UNCHANGED << invocation, tools, call_options, env, available_functions, max_iterations, messages, iteration,
                    response_message, tool_index, result, error, calls, responses, initial >>

Step(r) ==
    \/ CallModel(r)
    \/ Exhaust(r)
    \/ AppendAssistant(r)
    \/ FinalAnswer(r)
    \/ DispatchToolCall(r)
    \/ Continue(r)

Next == \E r \in Runs : Run(r) \/ Step(r)

\* The state after import and construction, for a given environment.
InitWith(e) ==
    /\ env = e
    /\ available_functions = Registry
    /\ max_iterations \in [Runs -> IterationBudgets \cup {DefaultMaxIterations}]
    /\ \A r \in Runs : IF r \in e.callers
                        THEN max_iterations[r] \in e.budgets[r]
                        ELSE max_iterations[r] = DefaultMaxIterations
    /\ pc = [r \in Runs |-> "idle"]
    /\ messages = [r \in Runs |-> <<>>]
    /\ iteration = [r \in Runs |-> 0]
    /\ response_message = [r \in Runs |-> NoResponse]
    /\ tool_index = [r \in Runs |-> 0]
    /\ result = [r \in Runs |-> None]
    /\ error = [r \in Runs |-> ""]
    /\ calls = [r \in Runs |-> <<>>]
    /\ responses = [r \in Runs |-> <<>>]
    /\ initial = [r \in Runs |-> <<>>]
    /\ tools = Catalog
    /\ call_options = [r \in Runs |-> <<>>]
    /\ invocation = <<>>

\* One run, against a backend free to answer anything.
Init ==
    InitWith([callers |-> {1},
              budgets |-> [r \in Runs |-> IterationBudgets],
              transcripts |-> [r \in Runs |-> InitialTranscripts],
              requests |-> AllRequests,
              texts |-> AllTexts])
Spec == Init /\ [][Next]_vars

\* A run is one synchronous thread of control: once entered, it keeps stepping.
InitFair ==
    InitWith([callers |-> {1},
              budgets |-> [r \in Runs |-> IterationBudgets],
              transcripts |-> [r \in Runs |-> {Transcript1}],
              requests |-> SomeRequests,
              texts |-> AllTexts])
FairSpec == InitFair /\ [][Next]_vars /\ \A r \in Runs : WF_vars(Step(r))

\* Two agents run by the caller at once, each with its own transcript and budget.
InitConc ==
    InitWith([callers |-> {1, 2},
              budgets |-> [r \in Runs |-> IF r = 1 THEN {MaxIter} ELSE {MaxIter - 1}],
              transcripts |-> [r \in Runs |-> IF r = 1 THEN {Transcript1} ELSE {Transcript4}],
              requests |-> FewRequests,
              texts |-> FewTexts])
SpecConc == InitConc /\ [][Next]_vars

(***************************************************************************)
(* The tool functions called directly                                      *)
(***************************************************************************)
\* Integers a caller passes as n and m, the invalid ones included.
ArgValues == (-2)..MaxArg

\* calculate_combinations(n, m), called as a function.
CallCombinations(n, m) ==
    /\ invocation' = << "calculate_combinations", n, m, calculate_combinations(n, m) >>
    /\ UNCHANGED << tools, call_options, env, available_functions, max_iterations, pc,
                    messages, iteration, response_message, tool_index, result, error,
                    calls, responses, initial >>

\* calculate_permutations(n, m), called as a function.
CallPermutations(n, m) ==
    /\ invocation' = << "calculate_permutations", n, m, calculate_permutations(n, m) >>
    /\ UNCHANGED << tools, call_options, env, available_functions, max_iterations, pc,
                    messages, iteration, response_message, tool_index, result, error,
                    calls, responses, initial >>

ToolNext ==
    \E n \in ArgValues, m \in ArgValues : CallCombinations(n, m) \/ CallPermutations(n, m)

\* No run is started: only the tool functions are exercised.
ToolInit ==
    InitWith([callers |-> {},
              budgets |-> [r \in Runs |-> IterationBudgets],
              transcripts |-> [r \in Runs |-> InitialTranscripts],
              requests |-> AllRequests,
              texts |-> AllTexts])
ToolSpec == ToolInit /\ [][ToolNext]_vars

(***************************************************************************)
(* run executed alone, start to end, over a given list of responses        *)
(***************************************************************************)
\* The for loop over tool_calls from request i on, appending to transcript t.
RECURSIVE SoloDispatch(_, _, _)
SoloDispatch(t, tool_calls, i) ==
    IF i > Len(tool_calls) THEN [messages |-> t, error |-> ""]
    ELSE IF DispatchError(tool_calls[i]) # ""
         THEN [messages |-> t, error |-> DispatchError(tool_calls[i])]
         ELSE SoloDispatch(Append(t, DispatchTurn(tool_calls[i])), tool_calls, i + 1)

\* The while loop from counter value it on, with transcript t and the calls
\* made so far; it stops at the loop head when the responses run out.
RECURSIVE SoloRun(_, _, _, _, _)
SoloRun(t, it, budget, resps, sent) ==
    IF ~(it < budget)
    THEN [pc |-> "Exhausted", messages |-> t, calls |-> sent,
          result |-> Some(Sentinel), error |-> ""]
    ELSE IF it + 1 > Len(resps)
    THEN [pc |-> "while", messages |-> t, calls |-> sent, result |-> None, error |-> ""]
    ELSE LET resp == resps[it + 1]
             d == SoloDispatch(Append(t, AssistantToolTurn(resp)), resp.tool_calls, 1)
         IN  IF resp.tool_calls = <<>>
             THEN [pc |-> "Done",
                   messages |-> Append(t, AssistantFinalTurn(FinalContent(resp))),
                   calls |-> Append(sent, t),
                   result |-> FinalContent(resp), error |-> ""]
             ELSE IF d.error # ""
             THEN [pc |-> "Raised", messages |-> d.messages, calls |-> Append(sent, t),
                   result |-> None, error |-> d.error]
             ELSE SoloRun(d.messages, it + 1, budget, resps, Append(sent, t))

(***************************************************************************)
(* Helpers of the properties                                               *)
(***************************************************************************)
IsPrefix(s, t) == Len(s) <= Len(t) /\ SubSeq(t, 1, Len(s)) = s

Last(s) == s[Len(s)]

\* The turn at position p is an assistant turn that carries tool requests.
IsRequestTurn(t, p) == t[p].role = "assistant" /\ "tool_calls" \in DOMAIN t[p]

\* In transcript t, every request turn after position from is followed by
\* exactly one tool turn per request, in request order, with its id and name.
WellPaired(t, from) ==
    \A p \in (from + 1)..Len(t) :
        IsRequestTurn(t, p) =>
            LET k == Len(t[p].tool_calls)
            IN  /\ p + k <= Len(t)
                /\ \A i \in 1..k :
                      /\ t[p + i].role = "tool"
                      /\ t[p + i].tool_call_id = t[p].tool_calls[i].id
                      /\ t[p + i].name = t[p].tool_calls[i].function.name
                /\ (p + k + 1 <= Len(t) => t[p + k + 1].role # "tool")

\* A tool request the loop executes without raising: a registered name and
\* arguments that decode to an object with n and m.
Registered(tc) == tc.function.name \in {"calculate_combinations", "calculate_permutations"}
Undecodable(tc) == tc.function.arguments = ArgsTruncated
NotAnObject(tc) == tc.function.arguments = ArgsNotObject
ValidRequest(tc) == Registered(tc) /\ ~Undecodable(tc) /\ ~NotAnObject(tc)

\* Everything run reads or writes for run r.
RunVars(r) ==
    << pc[r], messages[r], iteration[r], response_message[r], tool_index[r],
       result[r], error[r], calls[r], responses[r], initial[r], call_options[r] >>

\* The request the for loop of run r is at.
AtRequest(r) ==
    pc[r] = "dispatch" /\ tool_index[r] <= Len(response_message[r].tool_calls)
CurrentRequest(r) == response_message[r].tool_calls[tool_index[r]]

\* The response asks for tools, and every request in it is valid.
ValidToolResponse(resp) ==
    /\ resp.tool_calls # <<>>
    /\ \A i \in 1..Len(resp.tool_calls) : ValidRequest(resp.tool_calls[i])

(***************************************************************************)
(* C1                                                                      *)
(***************************************************************************)
\* C1: in every transcript sent to the backend, and whenever the loop is about
\* to call the backend, every assistant turn appended by this run that carries
\* k tool requests is immediately followed by exactly k tool turns, the i-th
\* with the id and the tool name of the i-th request.
C1_RequestsAnsweredBeforeNextCall ==
    \A r \in Runs :
        /\ \A j \in 1..Len(calls[r]) : WellPaired(calls[r][j], Len(initial[r]))
        /\ pc[r] = "while" => WellPaired(messages[r], Len(initial[r]))

\* A call was sent a transcript holding a two-request assistant turn of this run
\* (and so its two tool turns).
C1_Witness ==
    \E r \in Runs : \E j \in 1..Len(calls[r]) :
        \E p \in (Len(initial[r]) + 1)..Len(calls[r][j]) :
            /\ IsRequestTurn(calls[r][j], p)
            /\ Len(calls[r][j][p].tool_calls) = 2
            /\ calls[r][j][p + 2].tool_call_id = calls[r][j][p].tool_calls[2].id

(***************************************************************************)
(* C2                                                                      *)
(***************************************************************************)
\* C2: with a budget max_iterations >= 0, the backend is never called more than
\* max_iterations times, one call per counted iteration; a run that ends
\* Exhausted made exactly max_iterations calls and returns the sentinel; and a
\* run whose every response was a valid tool request can only end Exhausted.
C2_ExhaustedAfterBudget ==
    \A r \in Runs :
        max_iterations[r] >= 0 =>
            /\ Len(calls[r]) <= max_iterations[r]
            /\ Len(calls[r]) = iteration[r]
            /\ pc[r] = "Exhausted" =>
                  /\ Len(calls[r]) = max_iterations[r]
                  /\ result[r] = Some(Sentinel)
            /\ ( /\ pc[r] \in Terminal
                 /\ \A j \in 1..Len(responses[r]) : ValidToolResponse(responses[r][j]) )
               => pc[r] = "Exhausted"

\* A run ended Exhausted after two or more calls, all answered by tool requests.
C2_Witness ==
    \E r \in Runs :
        /\ pc[r] = "Exhausted"
        /\ Len(calls[r]) >= 2
        /\ \A j \in 1..Len(responses[r]) : ValidToolResponse(responses[r][j])

(***************************************************************************)
(* C3                                                                      *)
(***************************************************************************)
\* C3: a run that has ended after a k-th response without tool requests ended
\* Done, made exactly k calls with k within the budget, and returns exactly the
\* text of that response (its k-1 earlier responses were valid tool requests);
\* and Done is reached in no other way.
C3_DoneReturnsKthText ==
    \A r \in Runs :
        LET k == Len(responses[r])
        IN  /\ ( pc[r] \in Terminal /\ k >= 1 /\ responses[r][k].tool_calls = <<>> )
               => /\ pc[r] = "Done"
                  /\ result[r] = responses[r][k].content
                  /\ Len(calls[r]) = k
                  /\ k <= max_iterations[r]
                  /\ \A j \in 1..(k - 1) : ValidToolResponse(responses[r][j])
            /\ pc[r] = "Done" => (k >= 1 /\ responses[r][k].tool_calls = <<>>)

\* The final answer arrived on the last call the budget allows, after a tool round.
C3_Witness ==
    \E r \in Runs :
        /\ pc[r] = "Done"
        /\ Len(calls[r]) = max_iterations[r]
        /\ Len(calls[r]) >= 2
        /\ result[r] = Some("120")

(***************************************************************************)
(* C4                                                                      *)
(***************************************************************************)
HasUnregistered(resp) ==
    \E i \in 1..Len(resp.tool_calls) : ~Registered(resp.tool_calls[i])

\* The first request of a batch that is not valid (the batch has one).
FirstInvalid(batch) ==
    CHOOSE i \in 1..Len(batch) :
        /\ ~ValidRequest(batch[i])
        /\ \A h \in 1..(i - 1) : ValidRequest(batch[h])

\* C4 as claimed: a response with a request for an unregistered tool is the last
\* response of the run, the run returns neither an answer nor the sentinel, and
\* the error it ends with is UnknownTool (KeyError).
C4_UnknownToolRaisesUnknownTool ==
    \A r \in Runs : \A j \in 1..Len(responses[r]) :
        HasUnregistered(responses[r][j]) =>
            /\ j = Len(responses[r])
            /\ Len(calls[r]) = j
            /\ pc[r] \notin {"Done", "Exhausted"}
            /\ pc[r] \in Terminal => (pc[r] = "Raised" /\ error[r] = "KeyError")

\* C4 amended: such a response is the last of the run and the run ends by
\* raising; the error is UnknownTool (KeyError) exactly when the first request
\* of the batch that fails is an unregistered one whose arguments decode, and
\* otherwise the error of that earlier failure (JSONDecodeError, TypeError).
C4_UnknownToolIsFatal ==
    \A r \in Runs : \A j \in 1..Len(responses[r]) :
        HasUnregistered(responses[r][j]) =>
            /\ j = Len(responses[r])
            /\ Len(calls[r]) = j
            /\ pc[r] \notin {"Done", "Exhausted"}
            /\ pc[r] \in Terminal =>
                  LET first == responses[r][j].tool_calls[FirstInvalid(responses[r][j].tool_calls)]
                  IN  /\ pc[r] = "Raised"
                      /\ error[r] \in {"KeyError", "JSONDecodeError", "TypeError"}
                      /\ error[r] = "KeyError" <=> (~Registered(first) /\ ~Undecodable(first))
                      /\ error[r] = "JSONDecodeError" <=> Undecodable(first)

\* The second request of a batch named an unregistered tool: the first was
\* executed, then the run raised KeyError.
C4_Witness ==
    \E r \in Runs :
        /\ pc[r] = "Raised"
        /\ error[r] = "KeyError"
        /\ tool_index[r] = 2
        /\ ~Registered(CurrentRequest(r))
        /\ Last(messages[r]).role = "tool"

(***************************************************************************)
(* C5                                                                      *)
(***************************************************************************)
\* C5: the step of the for loop at a request whose arguments do not decode
\* raises JSONDecodeError (MalformedToolArguments): the index does not move past
\* the request, nothing is appended, no call is made; and a run that has raised
\* takes no further step (no later request executed, no further model call).
C5_MalformedArgumentsFatal ==
    [][ \A r \in Runs :
          /\ ( AtRequest(r) /\ Undecodable(CurrentRequest(r)) /\ RunVars(r)' # RunVars(r) )
             => /\ pc'[r] = "Raised"
                /\ error'[r] = "JSONDecodeError"
                /\ tool_index'[r] = tool_index[r]
                /\ messages'[r] = messages[r]
                /\ calls'[r] = calls[r]
          /\ pc[r] = "Raised" => RunVars(r)' = RunVars(r) ]_vars

\* A two-request batch whose first request did not decode: the run raised at
\* it, with the assistant turn the last turn of the transcript.
C5_Witness ==
    \E r \in Runs :
        /\ pc[r] = "Raised"
        /\ error[r] = "JSONDecodeError"
        /\ tool_index[r] = 1
        /\ Len(response_message[r].tool_calls) = 2
        /\ Undecodable(CurrentRequest(r))
        /\ IsRequestTurn(messages[r], Len(messages[r]))

(***************************************************************************)
(* C6                                                                      *)
(***************************************************************************)
\* C6: every run that was entered reaches a terminal outcome (Done, Exhausted
\* or a raised error), whatever the backend answers and whatever the budget.
C6_Termination == \A r \in Runs : (pc[r] # "idle") ~> (pc[r] \in Terminal)

\* A run ended after using its whole budget of two or more calls.
C6_Witness ==
    \E r \in Runs :
        /\ pc[r] \in Terminal
        /\ Len(calls[r]) >= 2
        /\ Len(calls[r]) = max_iterations[r]

(***************************************************************************)
(* C7                                                                      *)
(***************************************************************************)
\* A registered tool asked with integers that violate 0 <= m <= n.
DomainErrorRequest(tc) == Registered(tc) /\ tc.function.arguments = ArgsDomainError

\* The tool turn that carries the error payload for request tc.
ErrorToolTurn(tc) ==
    [role |-> "tool",
     tool_call_id |-> tc.id,
     name |-> tc.function.name,
     content |-> Some("{\"error\": \"Invalid input: n and m must be non-negative integers with m <= n\"}")]

\* C7: the step of the for loop at a registered tool whose integer arguments
\* violate its precondition does not raise: it appends the tool turn with the
\* error payload, correlated to the request, and moves to the next request; and
\* no raised run stopped at a registered tool with decodable integer arguments.
C7_DomainErrorNotFatal ==
    /\ [][ \A r \in Runs :
             ( AtRequest(r) /\ DomainErrorRequest(CurrentRequest(r)) /\ RunVars(r)' # RunVars(r) )
             => /\ pc'[r] = "dispatch"
                /\ error'[r] = ""
                /\ messages'[r] = Append(messages[r], ErrorToolTurn(CurrentRequest(r)))
                /\ tool_index'[r] = tool_index[r] + 1 ]_vars
    /\ [](\A r \in Runs : pc[r] = "Raised" => ~ValidRequest(CurrentRequest(r)))

\* The error payload of a first request was fed back: after it the second
\* request of the batch was executed, the next model call was sent both tool
\* turns, and the run ended Done.
C7_Witness ==
    \E r \in Runs : \E p \in 1..Len(messages[r]) :
        /\ pc[r] = "Done"
        /\ IsRequestTurn(messages[r], p)
        /\ Len(messages[r][p].tool_calls) = 2
        /\ messages[r][p + 1] = ErrorToolTurn(messages[r][p].tool_calls[1])
        /\ messages[r][p + 2].role = "tool"
        /\ Len(calls[r]) = 2
        /\ Last(calls[r]) = SubSeq(messages[r], 1, p + 2)

(***************************************************************************)
(* C8                                                                      *)
(***************************************************************************)
\* C8: the value returned in Exhausted (the sentinel) differs from every value
\* a run returns in Done.
C8_SentinelNeverAnAnswer ==
    \A r \in Runs : pc[r] = "Done" => result[r] # Some(Sentinel)

(***************************************************************************)
(* C9                                                                      *)
(***************************************************************************)
\* C9: no step changes or moves a turn already in the transcript; the transcript
\* the caller supplied and every transcript sent to the backend are prefixes of
\* the current one, each sent transcript extends the one before; and a model
\* call is sent exactly the whole current transcript.
C9_AppendOnly ==
    /\ [][ \A r \in Runs :
             /\ IsPrefix(messages[r], messages'[r])
             /\ Len(calls'[r]) > Len(calls[r]) =>
                   /\ calls'[r] = Append(calls[r], messages[r])
                   /\ messages'[r] = messages[r] ]_vars
    /\ [](\A r \in Runs :
             /\ IsPrefix(initial[r], messages[r])
             /\ \A j \in 1..Len(calls[r]) :
                   /\ IsPrefix(initial[r], calls[r][j])
                   /\ IsPrefix(calls[r][j], messages[r])
                   /\ j > 1 => IsPrefix(calls[r][j - 1], calls[r][j]))

\* Two calls were made, the second with a longer transcript than the first,
\* and the run appended a final turn after it.
C9_Witness ==
    \E r \in Runs :
        /\ pc[r] = "Done"
        /\ Len(calls[r]) = 2
        /\ Len(calls[r][1]) = Len(initial[r])
        /\ Len(calls[r][2]) > Len(calls[r][1])
        /\ Len(messages[r]) = Len(calls[r][2]) + 1

(***************************************************************************)
(* C10                                                                     *)
(***************************************************************************)
\* Run r executed alone over the responses the backend has given it so far.
Alone(r) == SoloRun(initial[r], 0, max_iterations[r], responses[r], <<>>)

\* C10: with two runs interleaved in every possible way, a step of one run
\* changes nothing of the other run, nor the registry, nor a budget; each run
\* makes the calls it makes when executed alone over the same responses, its
\* transcript is a prefix of the transcript of that solo execution and equal to
\* it at each loop head and at the end, and it ends with the same outcome,
\* returned value and error.
C10_RunsIndependent ==
    /\ [][ /\ available_functions' = available_functions
           /\ max_iterations' = max_iterations
           /\ \A r \in Runs : \A s \in Runs \ {r} :
                 RunVars(r)' # RunVars(r) => RunVars(s)' = RunVars(s) ]_vars
    /\ [](\A r \in Runs :
             pc[r] # "idle" =>
                 /\ calls[r] = Alone(r).calls
                 /\ IsPrefix(messages[r], Alone(r).messages)
                 /\ iteration[r] = Len(calls[r])
                 /\ pc[r] = "while" => messages[r] = Alone(r).messages
                 /\ pc[r] \in Terminal =>
                       /\ messages[r] = Alone(r).messages
                       /\ pc[r] = Alone(r).pc
                       /\ result[r] = Alone(r).result
                       /\ error[r] = Alone(r).error)

\* Both runs are in the middle of a tool batch at the same time, run 1 in its
\* second iteration and run 2 in its first.
C10_Witness ==
    /\ pc[1] = "dispatch" /\ Len(calls[1]) = 2 /\ tool_index[1] = 2
    /\ pc[2] = "dispatch" /\ Len(calls[2]) = 1 /\ tool_index[2] = 2
    /\ messages[1] # messages[2]

(***************************************************************************)
(* C11                                                                     *)
(***************************************************************************)
RECURSIVE Factorial(_)
Factorial(n) == IF n <= 0 THEN 1 ELSE n * Factorial(n - 1)

\* The binomial coefficient C(n, m) and n!/(n-m)!, for 0 <= m <= n.
Binomial(n, m) == Factorial(n) \div (Factorial(m) * Factorial(n - m))
Arrangements(n, m) == Factorial(n) \div Factorial(n - m)

\* The parts of a direct tool call.
Called == invocation # <<>>
CalledTool == invocation[1]
ArgN == invocation[2]
ArgM == invocation[3]
Payload == invocation[4]
ValidArgs == 0 <= ArgM /\ ArgM <= ArgN

\* C11: for 0 <= m <= n, calculate_combinations returns exactly
\* {n, m, combinations: C(n, m)} and calculate_permutations exactly
\* {n, m, permutations: n!/(n-m)!}; combinations is 1 for m = 0 and m = n, and
\* permutations is 1 for m = 0.
C11_ToolsComputeCounts ==
    (Called /\ ValidArgs) =>
        /\ CalledTool = "calculate_combinations" =>
              /\ Payload = [n |-> ArgN, m |-> ArgM, combinations |-> Binomial(ArgN, ArgM)]
              /\ (ArgM = 0 \/ ArgM = ArgN) => Payload.combinations = 1
        /\ CalledTool = "calculate_permutations" =>
              /\ Payload = [n |-> ArgN, m |-> ArgM, permutations |-> Arrangements(ArgN, ArgM)]
              /\ ArgM = 0 => Payload.permutations = 1

\* The scenario of the specification: C(10, 3) is 120.
C11_Witness ==
    invocation = << "calculate_combinations", 10, 3, [n |-> 10, m |-> 3, combinations |-> 120] >>

(***************************************************************************)
(* C12                                                                     *)
(***************************************************************************)
\* C12: for (n, m) that violate 0 <= m <= n both tools return exactly
\* {error: message}, never a success payload; and a returned payload has the
\* error field if and only if the input violates 0 <= m <= n, a success payload
\* having exactly the tool's three fields.
C12_InvalidInputsGiveErrorPayload ==
    Called =>
        /\ ~ValidArgs =>
              Payload = [error |-> "Invalid input: n and m must be non-negative integers with m <= n"]
        /\ "error" \in DOMAIN Payload <=> ~ValidArgs
        /\ ValidArgs =>
              DOMAIN Payload = IF CalledTool = "calculate_combinations"
                               THEN {"n", "m", "combinations"}
                               ELSE {"n", "m", "permutations"}

\* The scenario of the specification: C(3, 5) is an error payload.
C12_Witness ==
    /\ Called
    /\ CalledTool = "calculate_combinations" /\ ArgN = 3 /\ ArgM = 5
    /\ DOMAIN Payload = {"error"}

(***************************************************************************)
(* C13                                                                     *)
(***************************************************************************)
\* The transcript of run r ends with the assistant turn of the response being
\* handled followed by the tool turns of its first j requests, in order.
EndsWithBatchPrefix(r, j) ==
    LET a == Len(messages[r]) - j
        tool_calls == response_message[r].tool_calls
    IN  /\ a >= 1
        /\ messages[r][a] = AssistantToolTurn(response_message[r])
        /\ \A i \in 1..j :
              /\ messages[r][a + i].role = "tool"
              /\ messages[r][a + i].tool_call_id = tool_calls[i].id
              /\ messages[r][a + i].name = tool_calls[i].function.name

\* C13: while a batch is dispatched, the for loop is at request j only when
\* the tool turns of requests 1..j-1, and no other, follow the assistant turn;
\* and each step of the loop handles exactly the one request it is at: it
\* raises, or appends that request's tool turn and moves to the next request.
C13_OneRequestAtATime ==
    /\ [](\A r \in Runs :
             pc[r] = "dispatch" =>
                 /\ tool_index[r] \in 1..(Len(response_message[r].tool_calls) + 1)
                 /\ EndsWithBatchPrefix(r, tool_index[r] - 1))
    /\ [][ \A r \in Runs :
             ( AtRequest(r) /\ RunVars(r)' # RunVars(r) ) =>
                 \/ /\ pc'[r] = "Raised"
                    /\ messages'[r] = messages[r]
                    /\ tool_index'[r] = tool_index[r]
                 \/ /\ pc'[r] = "dispatch"
                    /\ Len(messages'[r]) = Len(messages[r]) + 1
                    /\ Last(messages'[r]).role = "tool"
                    /\ Last(messages'[r]).tool_call_id = CurrentRequest(r).id
                    /\ tool_index'[r] = tool_index[r] + 1 ]_vars

\* The first request of a two-request batch is done and its tool turn is the
\* last turn, while the second has not been started.
C13_Witness ==
    \E r \in Runs :
        /\ AtRequest(r)
        /\ tool_index[r] = 2
        /\ Last(messages[r]).role = "tool"
        /\ Last(messages[r]).tool_call_id = response_message[r].tool_calls[1].id
        /\ Last(messages[r]).tool_call_id # CurrentRequest(r).id

(***************************************************************************)
(* C14                                                                     *)
(***************************************************************************)
\* C14: in Done the last turn of the transcript is an assistant turn without
\* tool requests whose content is the returned value, and it is the only turn
\* added since the last model call.
C14_DoneEndsWithAnswerTurn ==
    \A r \in Runs :
        pc[r] = "Done" =>
            /\ Last(messages[r]) = [role |-> "assistant", content |-> result[r]]
            /\ Len(messages[r]) = Len(Last(calls[r])) + 1
            /\ SubSeq(messages[r], 1, Len(messages[r]) - 1) = Last(calls[r])

\* Done on a second call: the answer turn follows the tool turn of the first round.
C14_Witness ==
    \E r \in Runs :
        /\ pc[r] = "Done"
        /\ Len(calls[r]) = 2
        /\ Last(messages[r]).content = Some("120")
        /\ messages[r][Len(messages[r]) - 1].role = "tool"

(***************************************************************************)
(* C15                                                                     *)
(***************************************************************************)
\* C15: no step changes the registry or the catalog, and every model call of
\* a run carries the same catalog, tool_choice "auto" and
\* parallel_tool_calls disabled.
C15_RegistryAndCatalogFixed ==
    /\ [][ /\ available_functions' = available_functions
           /\ tools' = tools ]_vars
    /\ [](\A r \in Runs :
             /\ Len(call_options[r]) = Len(calls[r])
             /\ \A j \in 1..Len(call_options[r]) :
                   /\ call_options[r][j].tools = Catalog
                   /\ call_options[r][j].tools = call_options[r][1].tools
                   /\ call_options[r][j].tool_choice = "auto"
                   /\ call_options[r][j].parallel_tool_calls = FALSE)

\* A run that has called the model twice, with a tool executed in between.
C15_Witness ==
    \E r \in Runs :
        /\ Len(call_options[r]) = 2
        /\ available_functions = Registry
        /\ \E i \in 1..Len(messages[r]) : messages[r][i].role = "tool"

(***************************************************************************)
(* C16                                                                     *)
(***************************************************************************)
\* C16: when request j of a batch of k raises, the transcript is the one sent
\* on the last call, then the assistant turn of the batch, then exactly the
\* tool turns of requests 1..j-1; nothing is rolled back.
C16_FatalErrorKeepsTranscript ==
    \A r \in Runs :
        pc[r] = "Raised" =>
            LET j == tool_index[r]
                k == Len(response_message[r].tool_calls)
                a == Len(messages[r]) - (j - 1)
            IN  /\ j \in 1..k
                /\ DispatchError(response_message[r].tool_calls[j]) # ""
                /\ EndsWithBatchPrefix(r, j - 1)
                /\ SubSeq(messages[r], 1, a - 1) = Last(calls[r])
                /\ Len(messages[r]) - a = j - 1
                /\ j - 1 < k

\* The second request of a batch of two raised after the first was answered.
C16_Witness ==
    \E r \in Runs :
        /\ pc[r] = "Raised"
        /\ tool_index[r] = 2
        /\ Len(response_message[r].tool_calls) = 2
        /\ Last(messages[r]).role = "tool"
        /\ IsRequestTurn(messages[r], Len(messages[r]) - 1)

(***************************************************************************)
(* C17                                                                     *)
(***************************************************************************)
\* The number of assistant turns run r has appended to its transcript.
AssistantTurnsAppended(r) ==
    Cardinality({ i \in (Len(initial[r]) + 1)..Len(messages[r]) :
                     messages[r][i].role = "assistant" })

\* C17: in Exhausted with a budget of at least one the sentinel is returned
\* and not appended: the transcript ends with all the tool turns of the last
\* assistant turn, run has appended exactly max_iterations assistant turns,
\* and no model call was sent those last tool turns.
C17_ExhaustedLeavesToolTurnsLast ==
    \A r \in Runs :
        ( pc[r] = "Exhausted" /\ max_iterations[r] >= 1 ) =>
            LET k == Len(response_message[r].tool_calls)
                a == Len(messages[r]) - k
            IN  /\ result[r] = Some(Sentinel)
                /\ k >= 1
                /\ Last(messages[r]).role = "tool"
                /\ EndsWithBatchPrefix(r, k)
                /\ response_message[r] = Last(responses[r])
                /\ AssistantTurnsAppended(r) = max_iterations[r]
                /\ Len(calls[r]) = max_iterations[r]
                /\ \A c \in 1..Len(calls[r]) : Len(calls[r][c]) < a

\* Exhausted after two rounds, the last of them a batch of two requests.
C17_Witness ==
    \E r \in Runs :
        /\ pc[r] = "Exhausted"
        /\ max_iterations[r] = 2
        /\ Len(response_message[r].tool_calls) = 2
        /\ Len(messages[r]) > Len(Last(calls[r])) + 2

(***************************************************************************)
(* C18                                                                     *)
(***************************************************************************)
\* A response with no tool calls and no text.
EmptyResponse(resp) == resp.tool_calls = <<>> /\ resp.content \in {None, Some("")}

\* C18: a response with no tool calls and empty or absent text ends the run
\* as a final answer: it is the last response, the run never raises or
\* exhausts on it, and once handled the run is Done, has returned that
\* content, has appended an assistant turn holding it, and made no other call.
C18_EmptyAnswerIsFinal ==
    \A r \in Runs : \A j \in 1..Len(responses[r]) :
        EmptyResponse(responses[r][j]) =>
            /\ j = Len(responses[r])
            /\ Len(calls[r]) = j
            /\ pc[r] \in {"respond", "Done"}
            /\ pc[r] = "Done" =>
                  /\ result[r] = responses[r][j].content
                  /\ Last(messages[r]) =
                        [role |-> "assistant", content |-> responses[r][j].content]
                  /\ Len(messages[r]) = Len(calls[r][j]) + 1

\* A run that ended on a response with absent text and returned it.
C18_Witness ==
    \E r \in Runs :
        /\ pc[r] = "Done"
        /\ EmptyResponse(Last(responses[r]))
        /\ result[r] = None
        /\ Last(messages[r]).content = None

(***************************************************************************)
(* C19                                                                     *)
(***************************************************************************)
\* C19: with max_iterations zero or negative run calls the model never,
\* leaves the transcript as it was given, and its one step returns the sentinel.
C19_NoBudgetNoCall ==
    \A r \in Runs :
        max_iterations[r] <= 0 =>
            /\ calls[r] = <<>>
            /\ responses[r] = <<>>
            /\ pc[r] \in {"idle", "while", "Exhausted"}
            /\ pc[r] # "idle" => messages[r] = initial[r]
            /\ pc[r] = "Exhausted" => result[r] = Some(Sentinel) /\ iteration[r] = 0

\* A run with a negative budget has returned, its transcript untouched.
C19_Witness ==
    \E r \in Runs :
        /\ pc[r] = "Exhausted"
        /\ max_iterations[r] < 0
        /\ messages[r] = initial[r]
        /\ messages[r] # <<>>
        /\ calls[r] = <<>>

====
